---- MODULE Spec2Model ----
(***************************************************************************)
(* Model of the WebSocket chat server in src/server.js: the client         *)
(* registry `clients`, the dispatcher (wsMessage / incomingMessage), the   *)
(* four request functions and the broadcast fan-out.                       *)
(*                                                                         *)
(* The event loop is single threaded: every transport event (connection,   *)
(* message, close) runs its handler to completion, so each handler is one  *)
(* action.  The transport (the ws library) is the environment: it creates  *)
(* connections, changes readyState and delivers the events.                *)
(***************************************************************************)
EXTENDS Integers, Sequences, FiniteSets, TLC

\* Number of connections the transport creates during a run.
NumConn == 3

Connections == 1..NumConn

\* JavaScript `undefined` (also what reading an absent property yields) and `null`.
Undef == "undefined"
Null  == "null"
\* A property that is not present in a serialized JSON text.
Absent == "absent"
\* The value `true` of the me flag.
True == "true"

\* Values a client can put in the nickname / message / action fields.
Nicknames == {"alice", "bob"}
NicknameInputs == Nicknames \cup {Undef, Null}
Messages == {"hi"}
MessageInputs == Messages \cup {Undef, Null}
ActionInputs == {"joinChat", "leaveChat", "sendChat", "changeNickname",
                 "bogusAction", Undef, Null}

\* Date.now() of sendChat: an opaque time stamp.
DateNow == "now"

\* data.client of a broadcast that has no originating client.
NoClient == 0

VARIABLES
  clients,    \* the array `clients`: sequence of connections, in array order
  conn,       \* per connection: "new" | "open" | "closed" | "gone"
  nickname,   \* per connection: the property client.nickname (Undef when never set)
  joined,     \* history: a joinChat of the connection has succeeded
  removals,   \* history: registry removals of the connection since its last join
  notices     \* history: clientLeave broadcasts for the connection since its last join

vars == <<clients, conn, nickname, joined, removals, notices>>

----------------------------------------------------------------------------
(* General functions *)

\* isSet: the variable is declared and set.
isSet(variable) == ~(variable = Undef \/ variable = Null)

\* client.readyState === WebSocket.OPEN, as the transport reports it.
IsOpen(client) == conn[client] = "open"

\* clients.indexOf(client): 1-based position of the first occurrence, 0 when
\* absent (JavaScript: 0-based, -1 when absent).
indexOf(cl, client) ==
  IF \E i \in 1..Len(cl) : cl[i] = client
  THEN CHOOSE i \in 1..Len(cl) : cl[i] = client /\ \A j \in 1..(i-1) : cl[j] # client
  ELSE 0

\* clients.splice(index, 1) for a 1-based index inside the array.
splice(cl, index) ==
  [i \in 1..(Len(cl) - 1) |-> IF i < index THEN cl[i] ELSE cl[i + 1]]

\* The set of connections held by the array.
Members(cl) == {cl[i] : i \in 1..Len(cl)}

----------------------------------------------------------------------------
(* Envelopes *)

\* The data sub-object of an incomingChat broadcast.
ChatData(name, content) ==
  [time |-> DateNow, name |-> name, content |-> content, me |-> Undef]

\* An object with none of the properties the server uses; `data` is <<>> when
\* the object has no data property and <<d>> when it has the sub-object d.
EmptyEnvelope ==
  [client |-> NoClient, action |-> Undef, error |-> Undef, nickname |-> Undef,
   oldNickname |-> Undef, newNickname |-> Undef, message |-> Undef, data |-> <<>>]

\* JSON.stringify of one property value: an undefined property is left out.
StringifyValue(v) == IF v = Undef THEN Absent ELSE v

\* JSON.parse side: reading a property that is not in the text yields undefined.
ParseValue(v) == IF v = Absent THEN Undef ELSE v

StringifyData(d) ==
  [time |-> StringifyValue(d.time), name |-> StringifyValue(d.name),
   content |-> StringifyValue(d.content), me |-> StringifyValue(d.me)]

ParseData(d) ==
  [time |-> ParseValue(d.time), name |-> ParseValue(d.name),
   content |-> ParseValue(d.content), me |-> ParseValue(d.me)]

\* JSON.stringify(envelope): the text sent on the wire.  A client object in
\* the `client` property is serialized as a plain object (its own enumerable
\* data properties), written here as -c for connection c; the connection
\* objects of the transport are taken to be serializable.
Stringify(e) ==
  [client |-> IF e.client = NoClient THEN NoClient ELSE 0 - e.client,
   action |-> StringifyValue(e.action), error |-> StringifyValue(e.error),
   nickname |-> StringifyValue(e.nickname),
   oldNickname |-> StringifyValue(e.oldNickname),
   newNickname |-> StringifyValue(e.newNickname),
   message |-> StringifyValue(e.message),
   data |-> IF e.data = <<>> THEN <<>> ELSE <<StringifyData(e.data[1])>>]

\* JSON.parse(text): a fresh object; the parsed `client` is a plain copy and is
\* not identical to any connection.
Parse(t) ==
  [client |-> t.client,
   action |-> ParseValue(t.action), error |-> ParseValue(t.error),
   nickname |-> ParseValue(t.nickname),
   oldNickname |-> ParseValue(t.oldNickname),
   newNickname |-> ParseValue(t.newNickname),
   message |-> ParseValue(t.message),
   data |-> IF t.data = <<>> THEN <<>> ELSE <<ParseData(t.data[1])>>]

\* One client.send(text): the recipient, the text, the registry at that moment
\* and the broadcast call it belongs to (0 for a direct send).
Send(to, text, cl, call) == [to |-> to, msg |-> text, reg |-> cl, call |-> call]

\* incomingMessageError: one {error} reply to the client.
incomingMessageError(client, error, cl) ==
  Send(client, Stringify([EmptyEnvelope EXCEPT !.error = error]), cl, 0)

----------------------------------------------------------------------------
(* Broadcast *)

\* Adapt with a shallow copy ({...data}) in place of the JSON round trip: the
\* data sub-object is shared with the caller's object, so a me flag set for one
\* recipient stays in it.
Adapt_ShallowCopy(data, client) ==
  LET stripped == [data EXCEPT !.client = NoClient]
      instance == IF data.client # NoClient /\ client = data.client
                  THEN [stripped EXCEPT !.data = <<[@[1] EXCEPT !.me = True]>>]
                  ELSE stripped
  IN [instance |-> instance, template |-> [data EXCEPT !.data = instance.data]]

\* The body of the forEach callback up to the send: the per-recipient copy of
\* the broadcast data.  `template` is the caller's data object after the
\* callback ran (the deep copy leaves it as it was).
Adapt(data, client) ==
  LET copy     == Parse(Stringify(data))
      stripped == [copy EXCEPT !.client = NoClient]
      instance == IF data.client # NoClient /\ client = data.client
                  THEN [stripped EXCEPT !.data = <<[@[1] EXCEPT !.me = True]>>]
                  ELSE stripped
  IN [instance |-> instance, template |-> data]

\* forEach whose callback sends without looking at readyState.
RECURSIVE forEach_NoReadyStateCheck(_, _, _, _, _, _, _)
forEach_NoReadyStateCheck(cl, k, len, data, sends, evicted, call) ==
  IF k > len
  THEN [clients |-> cl, sends |-> sends, evicted |-> evicted]
  ELSE IF k > Len(cl)
  THEN forEach_NoReadyStateCheck(cl, k + 1, len, data, sends, evicted, call)
  ELSE LET client == cl[k]
           a      == Adapt(data, client)
       IN forEach_NoReadyStateCheck(cl, k + 1, len, a.template,
            Append(sends, Send(client, Stringify(a.instance), cl, call)),
            evicted, call)

\* clients.forEach(callback) from index k on (1-based).  The length is read once
\* before the loop; an index that is no longer in the array is skipped; the
\* callback reads the element from the array as it is at that moment.
RECURSIVE forEach(_, _, _, _, _, _, _)
forEach(cl, k, len, data, sends, evicted, call) ==
  IF k > len
  THEN [clients |-> cl, sends |-> sends, evicted |-> evicted]
  ELSE IF k > Len(cl)
  THEN forEach(cl, k + 1, len, data, sends, evicted, call)
  ELSE LET client == cl[k]
           a      == Adapt(data, client)
       IN IF IsOpen(client)
          THEN forEach(cl, k + 1, len, a.template,
                       Append(sends, Send(client, Stringify(a.instance), cl, call)),
                       evicted, call)
          ELSE forEach(splice(cl, k), k + 1, len, a.template, sends,
                       Append(evicted, client), call)

\* broadcast(data), as the call number `call` of the running handler, on the
\* registry cl.  Returns the registry afterwards, the sends in order and the
\* connections evicted in order, with the registry the call started on.
broadcast(cl, data, call) ==
  LET r == IF Len(cl) > 0
           THEN forEach(cl, 1, Len(cl), data, <<>>, <<>>, call)
           ELSE [clients |-> cl, sends |-> <<>>, evicted |-> <<>>]
  IN [clients |-> r.clients, sends |-> r.sends, evicted |-> r.evicted,
      data |-> data, before |-> cl]

\* What a broadcast call leaves in the history.
CallRecord(b) ==
  [data |-> b.data, before |-> b.before, after |-> b.clients, evicted |-> b.evicted]

----------------------------------------------------------------------------
(* Server request functions.  Each takes the registry and the nickname       *)
(* properties as they are when it is called and returns them as it leaves    *)
(* them, with the sends it made (out), its broadcast calls (bcs), the        *)
(* entries it spliced out itself (spliced) and whether it took its success   *)
(* path (ok).                                                                *)

Result(cl, nick, out, bcs, spliced, ok) ==
  [clients |-> cl, nickname |-> nick, out |-> out, bcs |-> bcs,
   spliced |-> spliced, ok |-> ok]

\* The text `Welcome ${nickname}!`.
WelcomeText(n) ==
  CASE n = "alice" -> "Welcome alice!"
    [] n = "bob"   -> "Welcome bob!"
    [] OTHER       -> "Welcome !"

\* joinChat without the "already joined" check.
joinChat_NoMembershipCheck(cl, nick, client, data) ==
  IF ~isSet(data.nickname)
  THEN Result(cl, nick, <<incomingMessageError(client, "nickname is missing", cl)>>,
              <<>>, <<>>, FALSE)
  ELSE LET b     == broadcast(cl, [EmptyEnvelope EXCEPT !.action = "clientJoin",
                                                        !.nickname = data.nickname], 1)
           nick2 == [nick EXCEPT ![client] = data.nickname]
           cl2   == Append(b.clients, client)
           welcome == [EmptyEnvelope EXCEPT !.action = "welcomeClient",
                                            !.nickname = data.nickname,
                                            !.message = WelcomeText(data.nickname)]
       IN Result(cl2, nick2, b.sends \o <<Send(client, Stringify(welcome), cl2, 0)>>,
                 <<CallRecord(b)>>, <<>>, TRUE)

\* joinChat that looks at the nickname before it looks at the registry.
joinChat_NicknameCheckFirst(cl, nick, client, data) ==
  IF ~isSet(data.nickname)
  THEN Result(cl, nick, <<incomingMessageError(client, "nickname is missing", cl)>>,
              <<>>, <<>>, FALSE)
  ELSE IF indexOf(cl, client) # 0
  THEN Result(cl, nick, <<incomingMessageError(client, "Client already joined", cl)>>,
              <<>>, <<>>, FALSE)
  ELSE LET b     == broadcast(cl, [EmptyEnvelope EXCEPT !.action = "clientJoin",
                                                        !.nickname = data.nickname], 1)
           nick2 == [nick EXCEPT ![client] = data.nickname]
           cl2   == Append(b.clients, client)
           welcome == [EmptyEnvelope EXCEPT !.action = "welcomeClient",
                                            !.nickname = data.nickname,
                                            !.message = WelcomeText(data.nickname)]
       IN Result(cl2, nick2, b.sends \o <<Send(client, Stringify(welcome), cl2, 0)>>,
                 <<CallRecord(b)>>, <<>>, TRUE)

\* wsFunctions.joinChat
joinChat(cl, nick, client, data) ==
  IF indexOf(cl, client) # 0
  THEN Result(cl, nick, <<incomingMessageError(client, "Client already joined", cl)>>,
              <<>>, <<>>, FALSE)
  ELSE IF ~isSet(data.nickname)
  THEN Result(cl, nick, <<incomingMessageError(client, "nickname is missing", cl)>>,
              <<>>, <<>>, FALSE)
  ELSE LET b     == broadcast(cl, [EmptyEnvelope EXCEPT !.action = "clientJoin",
                                                        !.nickname = data.nickname], 1)
           nick2 == [nick EXCEPT ![client] = data.nickname]
           cl2   == Append(b.clients, client)
           welcome == [EmptyEnvelope EXCEPT !.action = "welcomeClient",
                                            !.nickname = data.nickname,
                                            !.message = WelcomeText(data.nickname)]
       IN Result(cl2, nick2, b.sends \o <<Send(client, Stringify(welcome), cl2, 0)>>,
                 <<CallRecord(b)>>, <<>>, TRUE)

\* leaveChat that broadcasts clientLeave before it removes the client.
leaveChat_BroadcastFirst(cl, nick, client) ==
  IF Len(cl) > 0 /\ indexOf(cl, client) # 0
  THEN LET name  == nick[client]
           b     == broadcast(cl, [EmptyEnvelope EXCEPT !.action = "clientLeave",
                                                        !.nickname = name], 1)
           index == indexOf(b.clients, client)
           cl2   == IF index # 0 THEN splice(b.clients, index) ELSE b.clients
       IN Result(cl2, nick, b.sends, <<CallRecord(b)>>,
                 IF index # 0 THEN <<client>> ELSE <<>>, TRUE)
  ELSE Result(cl, nick, <<>>, <<>>, <<>>, FALSE)

\* leaveChat without the `index != -1` check: clients.splice(-1, 1) removes the
\* last element of the array, and clientLeave is broadcast in any case.
leaveChat_NoIndexCheck(cl, nick, client) ==
  IF Len(cl) > 0
  THEN LET index == IF indexOf(cl, client) # 0 THEN indexOf(cl, client) ELSE Len(cl)
           name  == nick[client]
           cl2   == splice(cl, index)
           b     == broadcast(cl2, [EmptyEnvelope EXCEPT !.action = "clientLeave",
                                                         !.nickname = name], 1)
       IN Result(b.clients, nick, b.sends, <<CallRecord(b)>>, <<cl[index]>>, TRUE)
  ELSE Result(cl, nick, <<>>, <<>>, <<>>, FALSE)

\* leaveChat that broadcasts clientLeave for a member but leaves its entry in
\* the array.
leaveChat_KeepsEntry(cl, nick, client) ==
  IF Len(cl) > 0 /\ indexOf(cl, client) # 0
  THEN LET name == nick[client]
           b    == broadcast(cl, [EmptyEnvelope EXCEPT !.action = "clientLeave",
                                                       !.nickname = name], 1)
       IN Result(b.clients, nick, b.sends, <<CallRecord(b)>>, <<>>, TRUE)
  ELSE Result(cl, nick, <<>>, <<>>, <<>>, FALSE)

\* wsFunctions.leaveChat
leaveChat(cl, nick, client) ==
  IF Len(cl) > 0 /\ indexOf(cl, client) # 0
  THEN LET index == indexOf(cl, client)
           name  == nick[client]
           cl2   == splice(cl, index)
           b     == broadcast(cl2, [EmptyEnvelope EXCEPT !.action = "clientLeave",
                                                         !.nickname = name], 1)
       IN Result(b.clients, nick, b.sends, <<CallRecord(b)>>, <<client>>, TRUE)
  ELSE Result(cl, nick, <<>>, <<>>, <<>>, FALSE)

\* wsFunctions.sendChat
sendChat(cl, nick, client, data) ==
  IF ~isSet(data.message)
  THEN Result(cl, nick, <<incomingMessageError(client, "message is missing", cl)>>,
              <<>>, <<>>, FALSE)
  ELSE LET b == broadcast(cl, [EmptyEnvelope EXCEPT
                                 !.client = client,
                                 !.action = "incomingChat",
                                 !.data = <<ChatData(nick[client], data.message)>>], 1)
       IN Result(b.clients, nick, b.sends, <<CallRecord(b)>>, <<>>, TRUE)

\* changeNickname without the isSet(data.nickname) check.
changeNickname_NoNicknameCheck(cl, nick, client, data) ==
  LET oldNickname == nick[client]
      nick2 == [nick EXCEPT ![client] = data.nickname]
      b == broadcast(cl, [EmptyEnvelope EXCEPT !.action = "nicknameChange",
                                               !.oldNickname = oldNickname,
                                               !.newNickname = data.nickname], 1)
  IN Result(b.clients, nick2, b.sends, <<CallRecord(b)>>, <<>>, TRUE)

\* wsFunctions.changeNickname
changeNickname(cl, nick, client, data) ==
  IF ~isSet(data.nickname)
  THEN Result(cl, nick, <<incomingMessageError(client, "nickname is missing", cl)>>,
              <<>>, <<>>, FALSE)
  ELSE LET oldNickname == nick[client]
           nick2 == [nick EXCEPT ![client] = data.nickname]
           b == broadcast(cl, [EmptyEnvelope EXCEPT !.action = "nicknameChange",
                                                    !.oldNickname = oldNickname,
                                                    !.newNickname = data.nickname], 1)
       IN Result(b.clients, nick2, b.sends, <<CallRecord(b)>>, <<>>, TRUE)

\* The keys of wsFunctionsMap, filled by init from wsFunctions.
wsFunctionsMap == {"joinChat", "leaveChat", "sendChat", "changeNickname"}

\* incomingMessage that drops a request for an unknown action without a reply.
incomingMessage_UnknownActionSilent(cl, nick, client, data) ==
  IF ~isSet(data.action)
  THEN Result(cl, nick, <<incomingMessageError(client, "action is missing", cl)>>,
              <<>>, <<>>, FALSE)
  ELSE IF data.action \notin wsFunctionsMap
  THEN Result(cl, nick, <<>>, <<>>, <<>>, FALSE)
  ELSE CASE data.action = "joinChat"       -> joinChat(cl, nick, client, data)
         [] data.action = "leaveChat"      -> leaveChat(cl, nick, client)
         [] data.action = "sendChat"       -> sendChat(cl, nick, client, data)
         [] data.action = "changeNickname" -> changeNickname(cl, nick, client, data)

\* incomingMessage: dispatch of a parsed request.
incomingMessage(cl, nick, client, data) ==
  IF ~isSet(data.action)
  THEN Result(cl, nick, <<incomingMessageError(client, "action is missing", cl)>>,
              <<>>, <<>>, FALSE)
  ELSE IF data.action \notin wsFunctionsMap
  THEN Result(cl, nick, <<incomingMessageError(client, "No such action", cl)>>,
              <<>>, <<>>, FALSE)
  ELSE CASE data.action = "joinChat"       -> joinChat(cl, nick, client, data)
         [] data.action = "leaveChat"      -> leaveChat(cl, nick, client)
         [] data.action = "sendChat"       -> sendChat(cl, nick, client, data)
         [] data.action = "changeNickname" -> changeNickname(cl, nick, client, data)

\* wsMessage without the isJSON check: the content goes to the dispatcher, which
\* finds no action property in it.
wsMessage_NoJSONCheck(cl, nick, message) ==
  incomingMessage(cl, nick, message.client, message.content)

\* wsMessage: message = {content, client}; content.json is isJSON(content).
wsMessage(cl, nick, message) ==
  IF message.content.json
  THEN incomingMessage(cl, nick, message.client, message.content)
  ELSE Result(cl, nick,
              <<incomingMessageError(message.client, "Invalid JSON format", cl)>>,
              <<>>, <<>>, FALSE)

\* wsClose that only logs the disconnect.
wsClose_NoLeave(cl, nick, client) == Result(cl, nick, <<>>, <<>>, <<>>, FALSE)

\* wsClose
wsClose(cl, nick, client) == leaveChat(cl, nick, client)

----------------------------------------------------------------------------
(* The state machine *)

\* Cap of the two history counters.
CountCap == 2

\* The requests a client sends: a text that is not JSON, or an object with the
\* properties the dispatcher and the requested function read.
InvalidJSON == [json |-> FALSE, action |-> Undef, nickname |-> Undef, message |-> Undef]

Requests ==
  {InvalidJSON} \cup
  {[json |-> TRUE, action |-> a, nickname |-> n, message |-> m] :
     a \in ActionInputs, n \in NicknameInputs, m \in MessageInputs}

\* Requests that differ in a property the requested function reads.
Relevant(req) ==
  /\ req.action \notin {"joinChat", "changeNickname"} => req.nickname = Undef
  /\ req.action # "sendChat" => req.message = Undef

RelevantRequests == {q \in Requests : Relevant(q)}

Min(a, b) == IF a < b THEN a ELSE b

\* Number of occurrences of c in the sequence s.
Count(s, c) == Cardinality({i \in 1..Len(s) : s[i] = c})

\* All registry entries removed by a handler: its own splice and the evictions
\* of its broadcasts.
Removed(r) ==
  r.spliced \o (IF r.bcs = <<>> THEN <<>> ELSE r.bcs[1].evicted)

\* The state and history after a handler run with result r; joiner is the
\* connection whose joinChat succeeded (NoClient if none), leaver the connection
\* whose leaveChat ran (NoClient if none).
Apply(r, joiner, leaver) ==
  /\ clients' = r.clients
  /\ nickname' = r.nickname
  /\ joined' = [c \in Connections |-> joined[c] \/ c = joiner]
  /\ removals' = [c \in Connections |->
                    IF c = joiner THEN 0
                    ELSE Min(CountCap, removals[c] + Count(Removed(r), c))]
  /\ notices' = [c \in Connections |->
                    IF c = joiner THEN 0
                    ELSE IF c = leaver /\ r.bcs # <<>>
                    THEN Min(CountCap, notices[c] + 1)
                    ELSE notices[c]]

Init ==
  /\ clients = <<>>
  /\ conn = [c \in Connections |-> "new"]
  /\ nickname = [c \in Connections |-> Undef]
  /\ joined = [c \in Connections |-> FALSE]
  /\ removals = [c \in Connections |-> 0]
  /\ notices = [c \in Connections |-> 0]

\* wss 'connection' event: wsConnection registers the two listeners of a new,
\* open connection.  Connections are numbered in the order of their connection
\* events.
Connect(c) ==
  /\ conn[c] = "new"
  /\ \A d \in 1..(c - 1) : conn[d] # "new"
  /\ conn' = [conn EXCEPT ![c] = "open"]
  /\ UNCHANGED <<clients, nickname, joined, removals, notices>>

\* The transport closes the channel: readyState is no longer OPEN and the
\* 'close' event of the connection is pending.
ChannelClose(c) ==
  /\ conn[c] = "open"
  /\ conn' = [conn EXCEPT ![c] = "closed"]
  /\ UNCHANGED <<clients, nickname, joined, removals, notices>>

\* ws 'message' event of an open connection: wsMessage({content, client}); r is
\* what the handler run does.  The transport delivers messages of open
\* connections only.
Message(c, req) ==
  /\ conn[c] = "open"
  /\ \E r \in {wsMessage(clients, nickname, [content |-> req, client |-> c])} :
       LET isJoin  == req.json /\ req.action = "joinChat"
           isLeave == req.json /\ req.action = "leaveChat"
       IN Apply(r, IF isJoin /\ r.ok THEN c ELSE NoClient,
                   IF isLeave THEN c ELSE NoClient)
  /\ UNCHANGED conn

\* ws 'close' event: wsClose(ws), delivered once, after the channel has closed.
Close(c) ==
  /\ conn[c] = "closed"
  /\ conn' = [conn EXCEPT ![c] = "gone"]
  /\ \E r \in {wsClose(clients, nickname, c)} : Apply(r, NoClient, c)

Next ==
  \E c \in Connections :
    \/ Connect(c)
    \/ ChannelClose(c)
    \/ Close(c)
    \/ \E req \in RelevantRequests : Message(c, req)

Spec == Init /\ [][Next]_vars

\* The delivery of the pending close event of c, seen on conn alone.  Close(c)
\* is the only action that takes conn[c] from "closed" to "gone", so in a
\* behaviour of Spec the CloseEvent(c) steps are the Close(c) steps, and
\* CloseEvent(c) is enabled exactly when Close(c) is.
CloseEvent(c) ==
  /\ conn[c] = "closed"
  /\ conn' = [conn EXCEPT ![c] = "gone"]

\* The event loop delivers every pending close event.
FairSpec == Spec /\ \A c \in Connections : WF_conn(CloseEvent(c))

----------------------------------------------------------------------------
(* Handler runs from the current state *)

OpenConns   == {c \in Connections : conn[c] = "open"}
ClosedConns == {c \in Connections : conn[c] = "closed"}

\* The run of wsMessage for a message event the transport can deliver now.
MessageRun(c, req) == wsMessage(clients, nickname, [content |-> req, client |-> c])

\* The run of wsClose for a close event the transport can deliver now.
CloseRun(c) == wsClose(clients, nickname, c)

\* The claims about handler runs are stated of every run an event can start in
\* the current state: MessageRun(c, req) for every open connection c and every
\* request, CloseRun(c) for every connection whose close event is pending.

\* The sends of a run made by its broadcast call, as positions in r.out.
BroadcastSends(r) == {i \in 1..Len(r.out) : r.out[i].call # 0}

\* Members of the registry whose channel is not open.
Stale(cl) == {m \in Members(cl) : ~IsOpen(m)}

JoinRequest(n)  == [json |-> TRUE, action |-> "joinChat", nickname |-> n, message |-> Undef]
LeaveRequest    == [json |-> TRUE, action |-> "leaveChat", nickname |-> Undef, message |-> Undef]
ChatRequest(m)  == [json |-> TRUE, action |-> "sendChat", nickname |-> Undef, message |-> m]

\* c had joined and its entry was evicted by a broadcast: removed with no
\* clientLeave broadcast for it.
Evicted(c) == joined[c] /\ removals[c] = 1 /\ notices[c] = 0

\* c had joined and its entry was removed by leaveChat (from a leaveChat
\* message or from wsClose), with its clientLeave broadcast.
Left(c) == joined[c] /\ removals[c] = 1 /\ notices[c] = 1

----------------------------------------------------------------------------
(* Claims *)

\* C1: in every reachable state the registry `clients` holds each connection
\* at most once.
C1_NoDuplicateMembers ==
  \A i, j \in 1..Len(clients) : i # j => clients[i] # clients[j]

\* C1 witness: two connections have joined and are both registered.
C1_Witness ==
  /\ Len(clients) >= 2
  /\ \A i \in 1..Len(clients) : joined[clients[i]]

\* The broadcast of run r sends each open member of the registry it starts on
\* exactly one copy of its envelope.
C2_Run(r) ==
  r.bcs # <<>> =>
    \A m \in Members(r.bcs[1].before) :
      IsOpen(m) =>
        Cardinality({i \in BroadcastSends(r) :
                       /\ r.out[i].to = m
                       /\ r.out[i].msg.action = r.bcs[1].data.action}) = 1

\* C2 (as claimed): in every broadcast call, every connection that is in the
\* registry when the call starts and whose channel is open is sent exactly one
\* copy of the envelope, whatever other members are evicted in the same pass.
C2_EveryOpenMemberGetsOneCopy ==
  /\ \A c \in OpenConns, req \in RelevantRequests : C2_Run(MessageRun(c, req))
  /\ \A c \in ClosedConns : C2_Run(CloseRun(c))

\* The broadcast of run r leaves no stale member and keeps every open one.
C3_Run(r) ==
  r.bcs # <<>> =>
    /\ Stale(r.bcs[1].after) = {}
    /\ \A m \in Members(r.bcs[1].before) : IsOpen(m) => m \in Members(r.bcs[1].after)

\* C3 (as claimed): when a broadcast call returns, the registry holds no
\* connection whose channel is not open, and every member that was open is
\* still registered.
C3_BroadcastEvictsEveryStaleMember ==
  /\ \A c \in OpenConns, req \in RelevantRequests : C3_Run(MessageRun(c, req))
  /\ \A c \in ClosedConns : C3_Run(CloseRun(c))

\* Every recipient of the broadcast of run r is an open member of the registry
\* the call started on.
C4_Run(r) ==
  \A i \in BroadcastSends(r) :
    /\ IsOpen(r.out[i].to)
    /\ r.out[i].to \in Members(r.bcs[1].before)

\* C4: a broadcast call never sends to a registry member whose channel is not
\* open: the recipients of every broadcast are open members of the registry the
\* call started on.
C4_BroadcastSendsOnlyToOpenMembers ==
  /\ \A c \in OpenConns, req \in RelevantRequests : C4_Run(MessageRun(c, req))
  /\ \A c \in ClosedConns : C4_Run(CloseRun(c))

\* C4 witness: a broadcast has already evicted a stale member, and the registry
\* again holds a stale member next to an open one, with an open connection that
\* can trigger the next broadcast.
C4_Witness ==
  /\ \E c \in Connections : Evicted(c)
  /\ Stale(clients) # {}
  /\ Members(clients) \cap OpenConns # {}

\* The two runs of "joinChat(c, n) followed immediately by leaveChat(c)".
JoinRun(c, n) == MessageRun(c, JoinRequest(n))
LeaveAfter(j, c) ==
  wsMessage(j.clients, j.nickname, [content |-> LeaveRequest, client |-> c])

\* What C5 says about the broadcasts of the two runs: one clientJoin broadcast,
\* one clientLeave broadcast, neither sent to c.
JoinLeaveBroadcasts(j, l, c) ==
  /\ Len(j.bcs) = 1 /\ j.bcs[1].data.action = "clientJoin"
  /\ Len(l.bcs) = 1 /\ l.bcs[1].data.action = "clientLeave"
  /\ \A i \in 1..Len(j.out) : j.out[i].to = c => j.out[i].msg.action = "welcomeClient"
  /\ \A i \in 1..Len(l.out) : l.out[i].to # c

\* C5 (as claimed): for a connection c that is not a member, a successful
\* joinChat(c, n) followed immediately by leaveChat(c) leaves the membership set
\* equal to the one before, with one clientJoin and one clientLeave broadcast,
\* neither sent to c.
C5_JoinLeaveRestoresMembership ==
  \A c \in OpenConns \ Members(clients), n \in Nicknames :
    LET j == JoinRun(c, n)
        l == LeaveAfter(j, c)
    IN /\ j.ok
       /\ Members(l.clients) = Members(clients)
       /\ JoinLeaveBroadcasts(j, l, c)

\* C5 (amended): the membership set afterwards is the one before less stale
\* members only: nothing is added, c is out again, every open member stays;
\* one clientJoin and one clientLeave broadcast, neither sent to c.
C5_JoinLeaveRestoresOpenMembership ==
  \A c \in OpenConns \ Members(clients), n \in Nicknames :
    LET j == JoinRun(c, n)
        l == LeaveAfter(j, c)
    IN /\ j.ok
       /\ c \in Members(j.clients)
       /\ Members(l.clients) \subseteq Members(clients)
       /\ Members(clients) \ Members(l.clients) \subseteq Stale(clients)
       /\ JoinLeaveBroadcasts(j, l, c)

\* C5 witness: a connection has joined and left again by leaveChat while its
\* channel stayed open, and other connections, one of them stale, are registered.
C5_Witness ==
  \E c \in OpenConns :
    /\ Left(c)
    /\ c \notin Members(clients)
    /\ Members(clients) \cap OpenConns # {}
    /\ Stale(clients) # {}

\* In the broadcast of run r the me flag is on the originator's copy and on no
\* other.
C6_Run(r) ==
  /\ \A i \in BroadcastSends(r) :
       LET m      == r.out[i].msg
           origin == r.bcs[1].data.client
       IN IF origin # NoClient /\ r.out[i].to = origin
          THEN m.data # <<>> /\ m.data[1].me = True
          ELSE m.data = <<>> \/ m.data[1].me = Absent
  /\ Cardinality({i \in BroadcastSends(r) :
                    /\ r.out[i].msg.data # <<>>
                    /\ r.out[i].msg.data[1].me = True}) <= 1

\* C6: in every broadcast the copy sent to the originating connection of a
\* sendChat carries data.me = true and no other copy carries a me flag; at most
\* one recipient of a broadcast sees me = true.
C6_MeFlagOnlyForOriginator ==
  /\ \A c \in OpenConns, req \in RelevantRequests : C6_Run(MessageRun(c, req))
  /\ \A c \in ClosedConns : C6_Run(CloseRun(c))

\* C6 witness: two open members are registered, so that a sendChat of the first
\* is fanned out to itself and then to the other.
C6_Witness ==
  /\ Len(clients) >= 2
  /\ IsOpen(clients[1])
  /\ IsOpen(clients[2])
  /\ \E m \in Messages :
       Len(MessageRun(clients[1], ChatRequest(m)).out) >= 2

\* The leaveChat run an event can start for connection c now.
LeaveRun(c) == IF conn[c] = "open" THEN MessageRun(c, LeaveRequest) ELSE CloseRun(c)

\* C7: leaveChat(c) for a connection that is not in the registry changes
\* neither the registry nor any nickname, and sends nothing.
C7_LeaveOfNonMemberIsNoOp ==
  \A c \in (OpenConns \cup ClosedConns) \ Members(clients) :
    LET r == LeaveRun(c)
    IN /\ r.clients = clients
       /\ r.nickname = nickname
       /\ r.out = <<>>
       /\ r.bcs = <<>>

\* C7 witness: the registry is not empty, a connection pruned by a broadcast has
\* its close event pending, and a connection that has left by a leaveChat
\* message is still open.
C7_Witness ==
  /\ Len(clients) > 0
  /\ \E c \in ClosedConns : Evicted(c) /\ c \notin Members(clients)
  /\ \E d \in OpenConns : Left(d) /\ d \notin Members(clients)

\* C8: for each successful joinChat the entry is removed at most once, over
\* leaveChat, eviction in broadcast and wsClose, and at most one clientLeave is
\* broadcast for it.
C8_RemovedAtMostOnce ==
  \A c \in Connections : removals[c] <= 1 /\ notices[c] <= 1

\* C8 witness: the close events of two connections have been handled, one that
\* had left with its clientLeave broadcast and one that a broadcast had evicted.
C8_Witness ==
  /\ \E c \in Connections : conn[c] = "gone" /\ Left(c)
  /\ \E d \in Connections : conn[d] = "gone" /\ Evicted(d)

\* C9 (as claimed): a connection that has never successfully joined has no
\* nickname.
C9_NicknameOnlyAfterJoin ==
  \A c \in Connections : ~joined[c] => nickname[c] = Undef

\* C10: once the close event of a connection has been handled the connection is
\* not a member, in that state and in every later one; and with close events
\* delivered fairly every connection whose channel closed is eventually absent
\* from the registry.
C10_ClosedConnectionLeavesForGood ==
  /\ [](\A c \in Connections : conn[c] = "gone" => c \notin Members(clients))
  /\ \A c \in Connections : (conn[c] = "closed") ~> (c \notin Members(clients))

\* C10 witness: the close event of a connection that had joined has been
\* handled, the connection is out of the registry and another one is registered.
C10_Witness ==
  \E c \in Connections :
    /\ conn[c] = "gone"
    /\ Left(c)
    /\ c \notin Members(clients)
    /\ Len(clients) > 0

\* The run r makes exactly one send: the reply {error} to connection c, outside
\* any broadcast.
ErrorReplyOnly(r, c, error) ==
  /\ Len(r.out) = 1
  /\ r.out[1].to = c
  /\ r.out[1].call = 0
  /\ r.out[1].msg = Stringify([EmptyEnvelope EXCEPT !.error = error])

\* The run r leaves the registry and every nickname as they are, calls
\* broadcast not at all and removes no entry.
NothingChanged(r) ==
  /\ r.clients = clients
  /\ r.nickname = nickname
  /\ r.bcs = <<>>
  /\ r.spliced = <<>>
  /\ ~r.ok

\* Parsed requests whose action is set but is not a key of wsFunctionsMap.
UnknownActionRequests ==
  {q \in RelevantRequests : q.json /\ isSet(q.action) /\ q.action \notin wsFunctionsMap}

\* C11: a request whose action is set but not registered gets exactly one reply
\* {error: "No such action"}, sent to the sender only; no request function
\* runs, nothing is broadcast, and the registry and all nicknames are unchanged.
C11_UnknownActionRepliesOnce ==
  \A c \in OpenConns, req \in UnknownActionRequests :
    LET r == MessageRun(c, req)
    IN ErrorReplyOnly(r, c, "No such action") /\ NothingChanged(r)

\* C11 witness: an open member and an open non-member can each send the unknown
\* action while another member is registered, and the member's request is
\* answered with the error.
C11_Witness ==
  /\ Len(clients) >= 2
  /\ OpenConns \ Members(clients) # {}
  /\ \E c \in OpenConns \cap Members(clients), req \in UnknownActionRequests :
       MessageRun(c, req).out[1].msg.error = "No such action"

\* C12: a message that is not JSON gets exactly one reply
\* {error: "Invalid JSON format"}, sent to the sender; no request function runs,
\* nothing is broadcast, the registry and the nicknames are unchanged, and the
\* sender's channel stays open, so the events of every connection are handled
\* afterwards as before.
C12_InvalidJSONRepliesOnce ==
  \A c \in OpenConns :
    LET r == MessageRun(c, InvalidJSON)
    IN /\ ErrorReplyOnly(r, c, "Invalid JSON format")
       /\ NothingChanged(r)
       /\ IsOpen(c)

\* C12 witness: an open member can send the text that is not JSON while another
\* open member and a connection with a pending close event are there to be
\* served afterwards.
C12_Witness ==
  /\ Cardinality(OpenConns \cap Members(clients)) >= 2
  /\ ClosedConns # {}
  /\ \E c \in OpenConns \cap Members(clients) :
       MessageRun(c, InvalidJSON).out[1].msg.error = "Invalid JSON format"

\* The positions in r.out of the sends whose envelope has the given action.
SendsOf(r, action) == {i \in 1..Len(r.out) : r.out[i].msg.action = action}

\* The connections to which run r sends an envelope with the given action.
Recipients(r, action) == {r.out[i].to : i \in SendsOf(r, action)}

\* C13 (as claimed): a successful joinChat(c, n) first broadcasts
\* clientJoin{n} to exactly the open members registered before the join, once
\* each and not to c, while c is not yet registered; then sets c's nickname and
\* registers c; then sends exactly one welcomeClient, to c, with c registered.
C13_JoinAnnouncesThenAddsThenWelcomes ==
  \A c \in OpenConns \ Members(clients), n \in Nicknames :
    LET r == JoinRun(c, n)
    IN /\ r.ok
       /\ Recipients(r, "clientJoin") = Members(clients) \cap OpenConns
       /\ Cardinality(SendsOf(r, "clientJoin")) = Cardinality(Members(clients) \cap OpenConns)
       /\ \A i \in SendsOf(r, "clientJoin") :
            /\ r.out[i].msg.nickname = n
            /\ c \notin Members(r.out[i].reg)
       /\ r.nickname[c] = n
       /\ c \in Members(r.clients)
       /\ Cardinality(SendsOf(r, "welcomeClient")) = 1
       /\ \A i \in SendsOf(r, "welcomeClient") :
            /\ r.out[i].to = c
            /\ i = Len(r.out)
            /\ c \in Members(r.out[i].reg)

\* C14 (as claimed): leaveChat(c) of a member c removes c first and then
\* broadcasts clientLeave with the nickname c has at that moment; the envelope
\* goes to the remaining open members, once each and never to c, and the other
\* entries of the registry stay, in their order.
C14_LeaveRemovesThenAnnounces ==
  \A c \in (OpenConns \cup ClosedConns) \cap Members(clients) :
    LET r    == LeaveRun(c)
        rest == splice(clients, indexOf(clients, c))
    IN /\ Len(r.bcs) = 1
       /\ r.bcs[1].before = rest
       /\ r.bcs[1].data.action = "clientLeave"
       /\ r.bcs[1].data.nickname = nickname[c]
       /\ Recipients(r, "clientLeave") = Members(rest) \cap OpenConns
       /\ Len(r.out) = Cardinality(Members(rest) \cap OpenConns)
       /\ r.clients = rest

\* C15: joinChat from a connection that is already registered gets exactly one
\* reply {error: "Client already joined"}, to that connection, and nothing else
\* happens: no clientJoin, no welcomeClient, registry and nicknames unchanged,
\* whatever nickname the request carries; with no nickname in the request the
\* reply is still "Client already joined".
C15_JoinOfMemberIsRefused ==
  \A c \in OpenConns \cap Members(clients), n \in NicknameInputs :
    LET r == MessageRun(c, JoinRequest(n))
    IN ErrorReplyOnly(r, c, "Client already joined") /\ NothingChanged(r)

\* C15 witness: an open member named alice, registered next to another member,
\* can ask to join again as bob or with no nickname, and is refused.
C15_Witness ==
  \E c \in OpenConns \cap Members(clients) :
    /\ nickname[c] = "alice"
    /\ Len(clients) >= 2
    /\ MessageRun(c, JoinRequest("bob")).out[1].msg.error = "Client already joined"

\* Parsed requests that lack a field the dispatcher or the requested function
\* requires.
MissingFieldRequests ==
  {q \in RelevantRequests :
     /\ q.json
     /\ \/ ~isSet(q.action)
        \/ q.action \in {"joinChat", "changeNickname"} /\ ~isSet(q.nickname)
        \/ q.action = "sendChat" /\ ~isSet(q.message)}

\* The error text of the reply in run r.
ReplyError(r) == r.out[1].msg.error

\* C16: a request with a missing required field (nickname of joinChat or
\* changeNickname, message of sendChat, or the action) gets exactly one error
\* reply, to the requester only; nothing is broadcast and the registry and
\* every nickname are unchanged.
C16_MissingFieldRepliesOnce ==
  \A c \in OpenConns, req \in MissingFieldRequests :
    LET r == MessageRun(c, req)
    IN /\ ErrorReplyOnly(r, c, ReplyError(r))
       /\ ReplyError(r) \in {"action is missing", "nickname is missing",
                              "message is missing", "Client already joined"}
       /\ NothingChanged(r)

\* C16 witness: an open member registered next to another open member can send
\* changeNickname with a null nickname and is answered "nickname is missing".
C16_Witness ==
  \E c \in OpenConns \cap Members(clients) :
    /\ Cardinality(OpenConns \cap Members(clients)) >= 2
    /\ ReplyError(MessageRun(c, [json |-> TRUE, action |-> "changeNickname",
                                  nickname |-> Null, message |-> Undef]))
         = "nickname is missing"

RenameRequest(n) ==
  [json |-> TRUE, action |-> "changeNickname", nickname |-> n, message |-> Undef]

\* C17 (as claimed): changeNickname(c, n) of a member c with a set n sets c's
\* nickname to n and broadcasts nicknameChange{oldNickname, newNickname}, with
\* the nickname c had before the call as oldNickname, to all open members, c
\* included, once each; the registry loses stale members only.
C17_RenameReachesAllMembers ==
  \A c \in OpenConns \cap Members(clients), n \in Nicknames :
    LET r == MessageRun(c, RenameRequest(n))
    IN /\ r.nickname = [nickname EXCEPT ![c] = n]
       /\ Len(r.bcs) = 1
       /\ r.bcs[1].data.action = "nicknameChange"
       /\ r.bcs[1].data.oldNickname = nickname[c]
       /\ r.bcs[1].data.newNickname = n
       /\ Recipients(r, "nicknameChange") = Members(clients) \cap OpenConns
       /\ Len(r.out) = Cardinality(Members(clients) \cap OpenConns)
       /\ Members(r.clients) \subseteq Members(clients)
       /\ Members(clients) \ Members(r.clients) \subseteq Stale(clients)

\* A joinChat request that succeeds when a connection outside the registry
\* sends it.
IsJoinWithNickname(req) == req.json /\ req.action = "joinChat" /\ isSet(req.nickname)

\* C18 (as claimed): whatever a connection outside the registry sends, other
\* than a successful joinChat, no envelope goes to any other connection.
C18_NonMemberReachesNobodyElse ==
  \A c \in OpenConns \ Members(clients), req \in RelevantRequests :
    ~IsJoinWithNickname(req) =>
      LET r == MessageRun(c, req)
      IN \A i \in 1..Len(r.out) : r.out[i].to = c

\* A property of a serialized envelope is present and not null.
SetOnWire(v) == isSet(ParseValue(v))

\* Every clientJoin, clientLeave, nicknameChange and incomingChat envelope
\* sent in run r carries its name fields.
C19_Run(r) ==
  \A i \in 1..Len(r.out) :
    LET m == r.out[i].msg
    IN /\ m.action \in {"clientJoin", "clientLeave"} => SetOnWire(m.nickname)
       /\ m.action = "nicknameChange" =>
            SetOnWire(m.oldNickname) /\ SetOnWire(m.newNickname)
       /\ m.action = "incomingChat" => m.data # <<>> /\ SetOnWire(m.data[1].name)

\* C19 (as claimed): every registered connection has a set nickname, and every
\* clientJoin, clientLeave, nicknameChange and incomingChat envelope that is
\* sent carries set name fields (nickname, oldNickname and newNickname,
\* data.name).
C19_NamesAreAlwaysSet ==
  /\ \A m \in Members(clients) : isSet(nickname[m])
  /\ \A c \in OpenConns, req \in RelevantRequests : C19_Run(MessageRun(c, req))
  /\ \A c \in ClosedConns : C19_Run(CloseRun(c))

\* C20 (as claimed): once the close event of a connection that had joined has
\* been handled, a clientLeave for it has been broadcast, by whichever way its
\* entry left the registry.
C20_EveryDepartureIsAnnounced ==
  \A c \in Connections :
    joined[c] /\ conn[c] = "gone" => c \notin Members(clients) /\ notices[c] >= 1

====
